---- MODULE Spec2Model ----
(***************************************************************************)
(* Cursor-paginated list endpoints of the orders and products resolvers,   *)
(* together with the create / update / archive handlers that change the    *)
(* two collections the listings read.                                      *)
(*                                                                         *)
(* A collection is the sequence of its documents in the order the store    *)
(* holds them (its natural order).  The store does not specify the order   *)
(* of the results of a find without a sort; the natural order stands for   *)
(* it, and is any of Layouts at the start.  Keys (_id) are natural         *)
(* numbers, a new document getting a key above every existing one.         *)
(***************************************************************************)
EXTENDS Integers, Sequences, FiniteSets, TLC

VARIABLES
    orders,       \* the orders collection, in the store's own order
    products,     \* the products collection, in the store's own order
    batchOrders,  \* Batch.orders of every batch
    obs,          \* the request handled last
    resp,         \* the response sent to it
    nOps,         \* store writes made so far
    walk          \* the client walking the pages of a listing

vars == <<orders, products, batchOrders, obs, resp, nOps, walk>>

(***************************************************************************)
(* Program constants and bounds                                            *)
(***************************************************************************)
ORDERS_PAGE_SIZE == 30
PRODUCTS_PAGE_SIZE == 29

\* store writes (POST / PUT / DELETE) in one behaviour
MaxOps == 2
\* documents of the two collections at the start
InitialOrders == 33
InitialProducts == 31
\* batches an order may reference
Batches == {1, 2}
\* null (a cursor of pageInfo when the page has no edge)
Null == <<>>

Min(a, b) == IF a < b THEN a ELSE b

(***************************************************************************)
(* Cursor codec (utils/pagination): a cursor is the key's decimal string   *)
(* re-written in the codec's own alphabet.                                 *)
(***************************************************************************)
CursorAlphabet == <<"Q", "R", "S", "T", "U", "V", "W", "X", "Y", "Z">>

RECURSIVE DigitsOf(_)
DigitsOf(n) == IF n < 10 THEN <<n>> ELSE Append(DigitsOf(n \div 10), n % 10)

encodeCursor(k) == [i \in 1..Len(DigitsOf(k)) |-> CursorAlphabet[DigitsOf(k)[i] + 1]]

CursorDigit(ch) == CHOOSE d \in 0..9 : CursorAlphabet[d + 1] = ch

WellFormedCursor(c) ==
    /\ Len(c) > 0
    /\ \A i \in 1..Len(c) : \E d \in 0..9 : CursorAlphabet[d + 1] = c[i]

RECURSIVE CursorValue(_)
CursorValue(c) ==
    IF Len(c) = 0 THEN 0
    ELSE 10 * CursorValue(SubSeq(c, 1, Len(c) - 1)) + CursorDigit(c[Len(c)])

\* decodeCursor throws InvalidCursor on a malformed cursor
decodeCursor(c) ==
    IF WellFormedCursor(c) THEN [ok |-> TRUE, key |-> CursorValue(c)]
    ELSE [ok |-> FALSE, key |-> 0]

(***************************************************************************)
(* Query parameters.  A parameter is absent (undefined) or a string; a     *)
(* string is a sequence of one-character strings.                          *)
(***************************************************************************)
Absent == [present |-> FALSE, value |-> <<>>]
Str(s) == [present |-> TRUE, value |-> s]

\* JavaScript truthiness of a query parameter: undefined and "" are falsy
TruthyParam(p) == p.present /\ Len(p.value) > 0
\* A JavaScript number-or-undefined value
Undefined == [kind |-> "undefined", n |-> 0]
NaN == [kind |-> "NaN", n |-> 0]
Num(n) == [kind |-> "number", n |-> n]
\* JavaScript truthiness of it: undefined, NaN and 0 are falsy
TruthyNum(q) == q.kind = "number" /\ q.n # 0

DecimalDigits == <<"0", "1", "2", "3", "4", "5", "6", "7", "8", "9">>
IsDigit(ch) == \E d \in 0..9 : DecimalDigits[d + 1] = ch
DigitValue(ch) == CHOOSE d \in 0..9 : DecimalDigits[d + 1] = ch

RECURSIVE LeadingDigits(_)
LeadingDigits(s) ==
    IF Len(s) = 0 \/ ~IsDigit(s[1]) THEN <<>>
    ELSE <<s[1]>> \o LeadingDigits(Tail(s))

RECURSIVE DigitsValue(_)
DigitsValue(s) ==
    IF Len(s) = 0 THEN 0
    ELSE 10 * DigitsValue(SubSeq(s, 1, Len(s) - 1)) + DigitValue(s[Len(s)])

\* parseInt(s, 10): the value of the leading decimal digits, NaN if none
parseInt(s) ==
    IF Len(LeadingDigits(s)) = 0 THEN NaN ELSE Num(DigitsValue(LeadingDigits(s)))

(***************************************************************************)
(* Store queries                                                           *)
(***************************************************************************)
RECURSIVE InsertDesc(_, _)
InsertDesc(r, s) ==
    IF Len(s) = 0 THEN <<r>>
    ELSE IF r.id > s[1].id THEN <<r>> \o s
    ELSE <<s[1]>> \o InsertDesc(r, Tail(s))

RECURSIVE SortDescSeq(_)
\* .sort({ _id: -1 })
SortDescSeq(s) ==
    IF Len(s) = 0 THEN <<>> ELSE InsertDesc(s[1], SortDescSeq(Tail(s)))

\* .limit(n)
Limit(s, n) == SubSeq(s, 1, Min(n, Len(s)))

Keys(s) == {s[i].id : i \in 1..Len(s)}
MaxKey(s) == IF Len(s) = 0 THEN 0 ELSE CHOOSE k \in Keys(s) : \A j \in Keys(s) : j <= k

(***************************************************************************)
(* Responses                                                               *)
(***************************************************************************)
NoPageInfo == [endCursor |-> Null, hasNextPage |-> FALSE, startCursor |-> Null]

\* res.sendStatus(code): a status and no body
SendStatus(code) ==
    [status |-> code, body |-> {}, pageInfo |-> NoPageInfo, edges |-> <<>>,
     totalCount |-> 0, id |-> 0]

\* res.send({ pageInfo, edges, totalCount })
SendPage(pageInfo, edges, totalCount) ==
    [status |-> 200, body |-> {"pageInfo", "edges", "totalCount"},
     pageInfo |-> pageInfo, edges |-> edges, totalCount |-> totalCount, id |-> 0]

\* res.status(201).send({ id })
SendCreated(id) ==
    [status |-> 201, body |-> {"id"}, pageInfo |-> NoPageInfo, edges |-> <<>>,
     totalCount |-> 0, id |-> id]

\* which store call of a list request fails (connectivity, timeout)
Failures == {"none", "find", "count"}

Edges(items) == [i \in 1..Len(items) |-> [cursor |-> encodeCursor(items[i].id), node |-> items[i]]]

PageInfoOf(edges, hasNextPage) ==
    [endCursor |-> IF Len(edges) > 0 THEN edges[Len(edges)].cursor ELSE Null,
     hasNextPage |-> hasNextPage,
     startCursor |-> IF Len(edges) > 0 THEN edges[1].cursor ELSE Null]

(***************************************************************************)
(* Orders listing                                                          *)
(***************************************************************************)
OrdersSearchQuery(pSearch) ==
    IF TruthyParam(pSearch) THEN parseInt(pSearch.value) ELSE Undefined

OrdersSearchFilter(pSearch) ==
    LET searchQuery == OrdersSearchQuery(pSearch)
    IN  [archived |-> FALSE,
         hasBatch |-> TruthyNum(searchQuery),
         batch |-> IF TruthyNum(searchQuery) THEN searchQuery.n ELSE 0]

\* OrdersSearchMatch with the archived predicate left out of the filter
OrdersSearchMatchAnyArchived(r, f) ==
    f.hasBatch => r.batch = f.batch

OrdersSearchMatch(r, f) ==
    /\ r.archived = f.archived
    /\ f.hasBatch => r.batch = f.batch

\* { _id: { $lt: decodeCursor(afterCursor) } } or {}
OrdersCursorMatch(r, afterCursor) ==
    TruthyParam(afterCursor) => r.id < decodeCursor(afterCursor.value).key

OrdersFind(coll, pSearch, afterCursor) ==
    Limit(SortDescSeq(SelectSeq(coll, LAMBDA r :
              /\ OrdersCursorMatch(r, afterCursor)
              /\ OrdersSearchMatch(r, OrdersSearchFilter(pSearch)))),
          ORDERS_PAGE_SIZE + 1)

OrdersCount(coll, pSearch) ==
    Len(SelectSeq(coll, LAMBDA r : OrdersSearchMatch(r, OrdersSearchFilter(pSearch))))

\* OrdersIndex reading a cursor that does not decode as no cursor
OrdersIndexSkippingBadCursor(coll, pSearch, afterCursor, failure) ==
    LET cursor == IF TruthyParam(afterCursor) /\ ~decodeCursor(afterCursor.value).ok
                  THEN Absent ELSE afterCursor
        fetched == OrdersFind(coll, pSearch, cursor)
        hasNextPage == Len(fetched) > ORDERS_PAGE_SIZE
        items == IF hasNextPage THEN SubSeq(fetched, 1, ORDERS_PAGE_SIZE) ELSE fetched
        edges == Edges(items)
    IN  IF failure # "none" THEN SendStatus(422)
        ELSE SendPage(PageInfoOf(edges, hasNextPage), edges, OrdersCount(coll, pSearch))

\* The whole GET / handler of the orders router
OrdersIndex(coll, pSearch, afterCursor, failure) ==
    IF TruthyParam(afterCursor) /\ ~decodeCursor(afterCursor.value).ok
    THEN SendStatus(422)
    ELSE IF failure = "find" THEN SendStatus(422)
    ELSE LET fetched == OrdersFind(coll, pSearch, afterCursor)
             hasNextPage == Len(fetched) > ORDERS_PAGE_SIZE
             items == IF hasNextPage THEN SubSeq(fetched, 1, ORDERS_PAGE_SIZE) ELSE fetched
             edges == Edges(items)
         IN  IF failure = "count" THEN SendStatus(422)
             ELSE SendPage(PageInfoOf(edges, hasNextPage), edges, OrdersCount(coll, pSearch))

(***************************************************************************)
(* Products listing                                                        *)
(***************************************************************************)
Lower(ch) == CASE ch = "A" -> "a" [] ch = "B" -> "b" [] ch = "C" -> "c" [] OTHER -> ch

\* new RegExp(term, "i") throws on a pattern that is no regular expression;
\* of the terms used here the ones holding an unmatched parenthesis
ValidRegExp(term) == \A i \in 1..Len(term) : term[i] # "("

\* description matches new RegExp(term, "i"), term a string of letters
RegExpTest(term, description) ==
    \E i \in 0..(Len(description) - Len(term)) :
        \A j \in 1..Len(term) : Lower(description[i + j]) = Lower(term[j])

ProductsSearchMatch(r, pSearch) ==
    /\ r.archived = FALSE
    /\ TruthyParam(pSearch) => RegExpTest(pSearch.value, r.description)

\* ProductsCursorMatch with $gte in place of $gt
ProductsCursorMatchInclusive(r, afterCursor) ==
    TruthyParam(afterCursor) => r.id >= decodeCursor(afterCursor.value).key

\* { _id: { $gt: decodeCursor(afterCursor) } } or {}
ProductsCursorMatch(r, afterCursor) ==
    TruthyParam(afterCursor) => r.id > decodeCursor(afterCursor.value).key

\* no sort is given: the store returns the matching documents in its own order
ProductsFind(coll, pSearch, afterCursor) ==
    Limit(SelectSeq(coll, LAMBDA r :
              /\ ProductsCursorMatch(r, afterCursor)
              /\ ProductsSearchMatch(r, pSearch)),
          PRODUCTS_PAGE_SIZE + 1)

ProductsCount(coll, pSearch) ==
    Len(SelectSeq(coll, LAMBDA r : ProductsSearchMatch(r, pSearch)))

\* ProductsIndex sending the page it has built when the count query fails
ProductsIndexPartial(coll, pSearch, afterCursor, failure) ==
    IF TruthyParam(pSearch) /\ ~ValidRegExp(pSearch.value)
    THEN SendStatus(422)
    ELSE IF TruthyParam(afterCursor) /\ ~decodeCursor(afterCursor.value).ok
    THEN SendStatus(422)
    ELSE IF failure = "find" THEN SendStatus(422)
    ELSE LET fetched == ProductsFind(coll, pSearch, afterCursor)
             hasNextPage == Len(fetched) > PRODUCTS_PAGE_SIZE
             items == IF hasNextPage THEN SubSeq(fetched, 1, PRODUCTS_PAGE_SIZE) ELSE fetched
             edges == Edges(items)
             page == SendPage(PageInfoOf(edges, hasNextPage), edges, ProductsCount(coll, pSearch))
         IN  IF failure = "count"
             THEN [page EXCEPT !.body = {"pageInfo", "edges"}, !.totalCount = 0]
             ELSE page

\* The whole GET / handler of the products router
ProductsIndex(coll, pSearch, afterCursor, failure) ==
    IF TruthyParam(pSearch) /\ ~ValidRegExp(pSearch.value)
    THEN SendStatus(422)
    ELSE IF TruthyParam(afterCursor) /\ ~decodeCursor(afterCursor.value).ok
    THEN SendStatus(422)
    ELSE IF failure = "find" THEN SendStatus(422)
    ELSE LET fetched == ProductsFind(coll, pSearch, afterCursor)
             hasNextPage == Len(fetched) > PRODUCTS_PAGE_SIZE
             items == IF hasNextPage THEN SubSeq(fetched, 1, PRODUCTS_PAGE_SIZE) ELSE fetched
             edges == Edges(items)
         IN  IF failure = "count" THEN SendStatus(422)
             ELSE SendPage(PageInfoOf(edges, hasNextPage), edges, ProductsCount(coll, pSearch))

(***************************************************************************)
(* Initial store                                                           *)
(***************************************************************************)
\* the order in which the store holds n documents with keys 1..n
Layouts == {"asc", "desc", "rot"}
Layout(l, n) ==
    [i \in 1..n |-> CASE l = "asc" -> i
                      [] l = "desc" -> n + 1 - i
                      [] OTHER -> IF i = 1 THEN n ELSE i - 1]

InitialBatch(k) == IF k % 16 = 0 THEN 2 ELSE 1
InitialDescription(k) ==
    IF k % 16 = 0 THEN <<"c">> ELSE IF k % 2 = 0 THEN <<"a", "B">> ELSE <<"b">>

InitOrders(l) ==
    [i \in 1..InitialOrders |->
        [id |-> Layout(l, InitialOrders)[i], archived |-> FALSE,
         batch |-> InitialBatch(Layout(l, InitialOrders)[i])]]

InitProducts(l) ==
    [i \in 1..InitialProducts |->
        [id |-> Layout(l, InitialProducts)[i], archived |-> FALSE,
         description |-> InitialDescription(Layout(l, InitialProducts)[i])]]

InitBatchOrders ==
    [b \in Batches |-> SelectSeq([k \in 1..InitialOrders |-> k], LAMBDA k : InitialBatch(k) = b)]

NoRequest == [endpoint |-> "none", pSearch |-> Absent, afterCursor |-> Absent, failure |-> "none"]
ListRequest(endpoint, pSearch, afterCursor, failure) ==
    [endpoint |-> endpoint, pSearch |-> pSearch, afterCursor |-> afterCursor, failure |-> failure]

NoWalk ==
    [endpoint |-> "none", pSearch |-> Absent, afterCursor |-> Absent, seen |-> <<>>,
     start |-> {}, pages |-> 0, done |-> FALSE, changed |-> FALSE]

SetWhere(coll, id, field, value) ==
    [i \in 1..Len(coll) |-> IF coll[i].id = id THEN [coll[i] EXCEPT ![field] = value] ELSE coll[i]]

RECURSIVE ArchiveAll(_, _)
\* coll after DELETE /:id for every id of ids
ArchiveAll(coll, ids) ==
    IF ids = {} THEN coll
    ELSE LET id == CHOOSE x \in ids : TRUE
         IN  ArchiveAll(SetWhere(coll, id, "archived", TRUE), ids \ {id})

InitStore ==
    /\ \E l \in Layouts : orders = InitOrders(l) /\ products = InitProducts(l)
    /\ batchOrders = InitBatchOrders
    /\ obs = NoRequest
    /\ resp = SendStatus(0)
    /\ nOps = 0

Init == InitStore /\ walk = NoWalk

(***************************************************************************)
(* Request inputs                                                          *)
(***************************************************************************)
OrderSearches == {Absent, Str(<<>>), Str(<<"1">>), Str(<<"2">>), Str(<<"0">>), Str(<<"x">>)}
ProductSearches == {Absent, Str(<<"b">>), Str(<<"C">>), Str(<<"(">>)}
CursorKeys == {2, 17}
Cursors == {Absent, Str(<<>>), Str(<<"!">>)} \cup {Str(encodeCursor(k)) : k \in CursorKeys}
TouchedIds == {2, 31}
Descriptions == {<<"b">>, <<"c">>}

(***************************************************************************)
(* List requests                                                           *)
(***************************************************************************)
ListOrders(pSearch, afterCursor, failure) ==
    /\ obs' = ListRequest("orders", pSearch, afterCursor, failure)
    /\ resp' = OrdersIndex(orders, pSearch, afterCursor, failure)
    /\ UNCHANGED <<orders, products, batchOrders, nOps>>

ListProducts(pSearch, afterCursor, failure) ==
    /\ obs' = ListRequest("products", pSearch, afterCursor, failure)
    /\ resp' = ProductsIndex(products, pSearch, afterCursor, failure)
    /\ UNCHANGED <<orders, products, batchOrders, nOps>>

(***************************************************************************)
(* Orders: create, update, archive                                         *)
(***************************************************************************)
\* POST /: batch = 0 stands for a body without its batch
AddOrder(batch, saveFails) ==
    /\ nOps < MaxOps
    /\ obs' = NoRequest
    /\ IF batch = 0
       THEN /\ resp' = SendStatus(400)
            /\ UNCHANGED <<orders, batchOrders, nOps>>
       ELSE IF saveFails
       THEN /\ resp' = SendStatus(500)
            /\ UNCHANGED <<orders, batchOrders, nOps>>
       ELSE LET id == MaxKey(orders) + 1
            IN  /\ orders' = Append(orders, [id |-> id, archived |-> FALSE, batch |-> batch])
                /\ batchOrders' = [batchOrders EXCEPT ![batch] = Append(@, id)]
                /\ resp' = SendCreated(id)
                /\ nOps' = nOps + 1
    /\ UNCHANGED products

\* PUT /:id: batch = 0 stands for a body without batch, other says whether
\* client, deliverAt or items is given, fails whether the id is no ObjectId
\* or the store call fails
UpdateOrder(id, batch, other, fails) ==
    /\ nOps < MaxOps
    /\ obs' = NoRequest
    /\ IF (batch # 0 \/ other) /\ fails
       THEN /\ resp' = SendStatus(422)
            /\ UNCHANGED <<orders, nOps>>
       ELSE IF batch # 0 \/ other
       THEN /\ orders' = IF batch # 0 THEN SetWhere(orders, id, "batch", batch) ELSE orders
            /\ resp' = SendStatus(200)
            /\ nOps' = nOps + 1
       ELSE /\ resp' = SendStatus(400)
            /\ UNCHANGED <<orders, nOps>>
    /\ UNCHANGED <<products, batchOrders>>

\* DELETE /:id
ArchiveOrder(id, fails) ==
    /\ nOps < MaxOps
    /\ obs' = NoRequest
    /\ IF fails
       THEN /\ resp' = SendStatus(422)
            /\ UNCHANGED <<orders, nOps>>
       ELSE /\ orders' = SetWhere(orders, id, "archived", TRUE)
            /\ resp' = SendStatus(200)
            /\ nOps' = nOps + 1
    /\ UNCHANGED <<products, batchOrders>>

(***************************************************************************)
(* Products: create, update, archive                                       *)
(***************************************************************************)
\* POST /: an empty description stands for a body without one
AddProduct(description, saveFails) ==
    /\ nOps < MaxOps
    /\ obs' = NoRequest
    /\ IF Len(description) = 0
       THEN /\ resp' = SendStatus(400)
            /\ UNCHANGED <<products, nOps>>
       ELSE IF saveFails
       THEN /\ resp' = SendStatus(500)
            /\ UNCHANGED <<products, nOps>>
       ELSE LET id == MaxKey(products) + 1
            IN  /\ products' = Append(products,
                        [id |-> id, archived |-> FALSE, description |-> description])
                /\ resp' = SendCreated(id)
                /\ nOps' = nOps + 1
    /\ UNCHANGED <<orders, batchOrders>>

\* PUT /:id
UpdateProduct(id, description, other, fails) ==
    /\ nOps < MaxOps
    /\ obs' = NoRequest
    /\ IF (Len(description) > 0 \/ other) /\ fails
       THEN /\ resp' = SendStatus(422)
            /\ UNCHANGED <<products, nOps>>
       ELSE IF Len(description) > 0 \/ other
       THEN /\ products' = IF Len(description) > 0
                           THEN SetWhere(products, id, "description", description)
                           ELSE products
            /\ resp' = SendStatus(200)
            /\ nOps' = nOps + 1
       ELSE /\ resp' = SendStatus(400)
            /\ UNCHANGED <<products, nOps>>
    /\ UNCHANGED <<orders, batchOrders>>

\* DELETE /:id
ArchiveProduct(id, fails) ==
    /\ nOps < MaxOps
    /\ obs' = NoRequest
    /\ IF fails
       THEN /\ resp' = SendStatus(422)
            /\ UNCHANGED <<products, nOps>>
       ELSE /\ products' = SetWhere(products, id, "archived", TRUE)
            /\ resp' = SendStatus(200)
            /\ nOps' = nOps + 1
    /\ UNCHANGED <<orders, batchOrders>>

(***************************************************************************)
(* Spec: the two routers serving create, update, archive and list requests *)
(* in any order.                                                           *)
(***************************************************************************)
Next ==
    \/ \E b \in {0} \cup Batches, sf \in BOOLEAN : AddOrder(b, sf) /\ UNCHANGED walk
    \/ \E id \in TouchedIds, b \in {0} \cup Batches, o, f \in BOOLEAN :
          UpdateOrder(id, b, o, f) /\ UNCHANGED walk
    \/ \E id \in TouchedIds, f \in BOOLEAN : ArchiveOrder(id, f) /\ UNCHANGED walk
    \/ \E d \in {<<>>} \cup Descriptions, sf \in BOOLEAN : AddProduct(d, sf) /\ UNCHANGED walk
    \/ \E id \in TouchedIds, d \in {<<>>} \cup Descriptions, o, f \in BOOLEAN :
          UpdateProduct(id, d, o, f) /\ UNCHANGED walk
    \/ \E id \in TouchedIds, f \in BOOLEAN : ArchiveProduct(id, f) /\ UNCHANGED walk
    \/ \E s \in {Absent, Str(<<"1">>)}, c \in {Absent, Str(encodeCursor(17))} :
          ListOrders(s, c, "none") /\ UNCHANGED walk
    \/ \E s \in {Absent, Str(<<"b">>)}, c \in {Absent, Str(encodeCursor(17))} :
          ListProducts(s, c, "none") /\ UNCHANGED walk

Spec == Init /\ [][Next]_vars

(***************************************************************************)
(* ListSpec: list requests with every input, against stores in which some  *)
(* documents have been archived.                                           *)
(***************************************************************************)
ArchivedAtStart == {{}, {31}, {2, 31}}

ListInit ==
    /\ \E l \in Layouts, a \in ArchivedAtStart :
          /\ orders = ArchiveAll(InitOrders(l), a)
          /\ products = ArchiveAll(InitProducts(l), a)
    /\ batchOrders = InitBatchOrders
    /\ obs = NoRequest
    /\ resp = SendStatus(0)
    /\ nOps = 0
    /\ walk = NoWalk

ListNext ==
    \/ \E s \in OrderSearches, c \in Cursors, f \in Failures :
          ListOrders(s, c, f) /\ UNCHANGED walk
    \/ \E s \in ProductSearches, c \in Cursors, f \in Failures :
          ListProducts(s, c, f) /\ UNCHANGED walk

ListSpec == ListInit /\ [][ListNext]_vars

(***************************************************************************)
(* What a list response is measured against: the records of the collection *)
(* that satisfy the predicates of the request, as sets of keys.            *)
(***************************************************************************)
Listing == obs.endpoint \in {"orders", "products"}
Page == Listing /\ resp.status = 200
OfOrders == obs.endpoint = "orders"
Collection == IF OfOrders THEN orders ELSE products
PageSize == IF OfOrders THEN ORDERS_PAGE_SIZE ELSE PRODUCTS_PAGE_SIZE
EdgeKeys == [i \in 1..Len(resp.edges) |-> resp.edges[i].node.id]
EdgeKeySet == {EdgeKeys[i] : i \in 1..Len(EdgeKeys)}

SearchGiven == TruthyParam(obs.pSearch)
CursorGiven == TruthyParam(obs.afterCursor)
CursorKey == decodeCursor(obs.afterCursor.value).key

\* the search predicate of a listing: batch equal to the number the term
\* reads as (orders), description containing the term whatever the case
\* (products); no predicate without a term
SatisfiesSearchOf(endpoint, pSearch, r) ==
    TruthyParam(pSearch) =>
        IF endpoint = "orders"
        THEN parseInt(pSearch.value).kind = "number" /\ r.batch = parseInt(pSearch.value).n
        ELSE RegExpTest(pSearch.value, r.description)

SatisfiesSearch(r) == SatisfiesSearchOf(obs.endpoint, obs.pSearch, r)

\* the keys of the non-archived records of coll that satisfy the search
SearchedIn(endpoint, pSearch, coll) ==
    {coll[i].id : i \in {j \in 1..Len(coll) :
         ~coll[j].archived /\ SatisfiesSearchOf(endpoint, pSearch, coll[j])}}

\* the cursor predicate of the request, in the listing's direction
BeforeIn(endpoint, j, k) == IF endpoint = "orders" THEN j > k ELSE j < k
Before(j, k) == BeforeIn(obs.endpoint, j, k)
BeyondCursor(k) == CursorGiven => Before(CursorKey, k)

Searched == SearchedIn(obs.endpoint, obs.pSearch, Collection)
Matching == {k \in Searched : BeyondCursor(k)}
FirstOf(K, n) == {k \in K : Cardinality({j \in K : Before(j, k)}) < n}

\* C3: the edges of every page are in strictly descending key order for
\* the orders listing and in strictly ascending key order for the products
\* listing, whatever order the store holds the records in.
C3_EdgesInKeyOrder ==
    Page => \A i \in 1..(Len(EdgeKeys) - 1) : Before(EdgeKeys[i], EdgeKeys[i + 1])

\* C4: hasNextPage is true exactly when more than pageSize records satisfy
\* the composite predicate; then the edges are the first pageSize of them in
\* sort order, otherwise the edges are all of them.
C4_HasNextPageCorrect ==
    Page =>
        /\ resp.pageInfo.hasNextPage = (Cardinality(Matching) > PageSize)
        /\ Len(resp.edges) = Cardinality(EdgeKeySet)
        /\ EdgeKeySet = IF Cardinality(Matching) > PageSize
                        THEN FirstOf(Matching, PageSize) ELSE Matching

\* C5: with afterCursor = c no returned key equals decode(c); every one is
\* strictly less than decode(c) for orders, strictly greater for products.
C5_CursorExclusive ==
    (Page /\ CursorGiven) =>
        \A k \in EdgeKeySet : k # CursorKey /\ Before(CursorKey, k)

C5_Witness ==
    /\ Page /\ CursorGiven /\ ~OfOrders
    /\ Len(resp.edges) > 0
    /\ \E i \in 1..Len(products) : products[i].id = CursorKey /\ ~products[i].archived

\* C6: totalCount is the number of non-archived records matching the search
\* predicate alone, whatever the cursor.
C6_TotalCountIsSearched ==
    Page => resp.totalCount = Cardinality(Searched)

\* C7: with a search term, every edge of the orders listing has batch equal
\* to the numeric value of the term and totalCount counts only such orders.
C7_SearchAlwaysFilters ==
    (Page /\ OfOrders /\ SearchGiven) =>
        /\ \A i \in 1..Len(resp.edges) : SatisfiesSearch(resp.edges[i].node)
        /\ resp.totalCount = Cardinality(Searched)

\* the request fails for another reason than its cursor
OtherFailure ==
    \/ obs.failure # "none"
    \/ ~OfOrders /\ SearchGiven /\ ~ValidRegExp(obs.pSearch.value)

\* C8: an absent or empty afterCursor gives the first page (as many edges as
\* the page size and the searched records allow) and no error; a non-empty
\* afterCursor that is no well-formed cursor gives the error status and no page.
C8_CursorInput ==
    Listing =>
        /\ (~CursorGiven /\ ~OtherFailure) =>
              /\ resp.status = 200
              /\ Len(resp.edges) = Min(PageSize, resp.totalCount)
        /\ (CursorGiven /\ ~WellFormedCursor(obs.afterCursor.value)) =>
              /\ resp.status = 422
              /\ resp.body = {}

C8_Witness ==
    /\ Listing /\ obs.afterCursor = Str(<<"!">>)
    /\ obs.failure = "none" /\ resp.status = 422

RequestFails ==
    \/ OtherFailure
    \/ CursorGiven /\ ~WellFormedCursor(obs.afterCursor.value)

\* C9: a list request whose cursor decoding, page query or count query fails
\* is answered by the error status alone; any other by one complete response
\* of pageInfo, edges and totalCount.
C9_NoPartialPage ==
    Listing =>
        IF RequestFails
        THEN resp.status = 422 /\ resp.body = {}
        ELSE resp.status = 200 /\ resp.body = {"pageInfo", "edges", "totalCount"}

C9_Witness ==
    /\ Listing /\ obs.failure = "count" /\ resp.status = 422
    /\ ~CursorGiven

NotArchived(coll) == SelectSeq(coll, LAMBDA r : ~r.archived)

ArchivedKeys(coll) == {coll[i].id : i \in {j \in 1..Len(coll) : coll[j].archived}}

C10_PageWithoutArchived ==
    Page =>
        /\ \A i \in 1..Len(resp.edges) : ~resp.edges[i].node.archived
        /\ EdgeKeySet \cap ArchivedKeys(Collection) = {}
        /\ resp.totalCount =
              IF OfOrders THEN OrdersCount(NotArchived(orders), obs.pSearch)
              ELSE ProductsCount(NotArchived(products), obs.pSearch)

C10_ArchivedStays ==
    /\ ArchivedKeys(orders) \subseteq ArchivedKeys(orders')
    /\ ArchivedKeys(products) \subseteq ArchivedKeys(products')

\* C10: no list response holds an edge whose record is archived, totalCount
\* counts no archived record, and an archived record stays archived whatever
\* request is served next.
C10_ArchivedNeverListed == []C10_PageWithoutArchived /\ [][C10_ArchivedStays]_vars

C10_Witness ==
    /\ Page /\ nOps = MaxOps
    /\ ArchivedKeys(Collection) # {}
    /\ Len(resp.edges) > 0

(***************************************************************************)
(* WalkSpec: a client walks the pages of one listing with one search term, *)
(* passing back each page's endCursor, while orders and products are       *)
(* inserted.                                                               *)
(***************************************************************************)
Walks ==
    {<<"orders", Absent>>, <<"orders", Str(<<"1">>)>>, <<"orders", Str(<<"0">>)>>,
     <<"products", Absent>>, <<"products", Str(<<"b">>)>>}

StartWalk(endpoint, pSearch, coll) ==
    [endpoint |-> endpoint, pSearch |-> pSearch, afterCursor |-> Absent, seen |-> <<>>,
     start |-> SearchedIn(endpoint, pSearch, coll), pages |-> 0, done |-> FALSE,
     changed |-> FALSE]

WalkInit ==
    /\ \E l \in Layouts, a \in {{}, {31}} :
          /\ orders = ArchiveAll(InitOrders(l), a)
          /\ products = ArchiveAll(InitProducts(l), a)
    /\ batchOrders = InitBatchOrders
    /\ obs = NoRequest
    /\ resp = SendStatus(0)
    /\ nOps = 0
    /\ \E w \in Walks :
          walk = StartWalk(w[1], w[2], IF w[1] = "orders" THEN orders ELSE products)

\* the client's next request after response r
Advance(w, r) ==
    [w EXCEPT !.seen = @ \o [i \in 1..Len(r.edges) |-> r.edges[i].node.id],
              !.afterCursor = Str(r.pageInfo.endCursor),
              !.pages = @ + 1,
              !.done = ~r.pageInfo.hasNextPage]

WalkOrders ==
    /\ walk.endpoint = "orders" /\ ~walk.done
    /\ ListOrders(walk.pSearch, walk.afterCursor, "none")
    /\ walk' = Advance(walk, resp')

WalkProducts ==
    /\ walk.endpoint = "products" /\ ~walk.done
    /\ ListProducts(walk.pSearch, walk.afterCursor, "none")
    /\ walk' = Advance(walk, resp')

InsertOrder(batch) ==
    /\ ~walk.done
    /\ AddOrder(batch, FALSE)
    /\ walk' = [walk EXCEPT !.changed = TRUE]

InsertProduct(description) ==
    /\ ~walk.done
    /\ AddProduct(description, FALSE)
    /\ walk' = [walk EXCEPT !.changed = TRUE]

WalkNext ==
    \/ WalkOrders
    \/ WalkProducts
    \/ \E b \in Batches : InsertOrder(b)
    \/ \E d \in Descriptions : InsertProduct(d)

WalkSpec == WalkInit /\ [][WalkNext]_vars

\* the keys of K in the listing's order
RECURSIVE InOrder(_, _)
InOrder(endpoint, K) ==
    IF K = {} THEN <<>>
    ELSE LET first == CHOOSE k \in K : \A j \in K : j = k \/ BeforeIn(endpoint, k, j)
         IN  <<first>> \o InOrder(endpoint, K \ {first})

\* C1: with the store unchanged, the walk visits every non-archived record
\* matching the search exactly once, in key order, and ends on a page with
\* hasNextPage = false.
C1_ExhaustiveWalk ==
    (walk.done /\ ~walk.changed) =>
        /\ walk.seen = InOrder(walk.endpoint, walk.start)
        /\ ~resp.pageInfo.hasNextPage

\* C2: with inserts interleaved, the keys seen are strictly monotonic (so no
\* record is seen twice) and every record that matched at the start has been
\* seen when the walk ends.
C2_StableWalk ==
    /\ \A i \in 1..(Len(walk.seen) - 1) :
          BeforeIn(walk.endpoint, walk.seen[i], walk.seen[i + 1])
    /\ walk.done => walk.start \subseteq {walk.seen[i] : i \in 1..Len(walk.seen)}

====
